---- MODULE Spec2Model ----
(***************************************************************************)
(* Templater (src/main.py): a Tk window and a tray icon around a list of   *)
(* text templates persisted as a JSON array in templates.json.             *)
(*                                                                         *)
(* Text is a sequence of one-character strings.  A file is a sequence of   *)
(* JSON tokens; json.dump produces them chunk by chunk and json.load       *)
(* parses them back, so that a save followed by a load is a real round     *)
(* trip through an encoder, an escaper, a parser and an unescaper.         *)
(***************************************************************************)
EXTENDS Integers, Sequences, FiniteSets, TLC

(***************************************************************************)
(* Bounds of the model.                                                    *)
(***************************************************************************)
\* create_template is disabled once the collection holds this many templates
MaxTemplates == 2

(***************************************************************************)
(* Text helpers: str.strip, str.lower, the `in` operator, slicing.         *)
(***************************************************************************)
Whitespace == {" ", "\n"}

RECURSIVE LStrip(_)
LStrip(s) == IF s # <<>> /\ Head(s) \in Whitespace THEN LStrip(Tail(s)) ELSE s

RECURSIVE RStrip(_)
RStrip(s) ==
    IF s # <<>> /\ s[Len(s)] \in Whitespace
    THEN RStrip(SubSeq(s, 1, Len(s) - 1))
    ELSE s

\* str.strip(): leading and trailing whitespace removed
Strip(s) == RStrip(LStrip(s))

LowerChar(c) == CASE c = "A" -> "a" [] c = "B" -> "b" [] OTHER -> c

\* str.lower()
Lower(s) == [i \in 1..Len(s) |-> LowerChar(s[i])]

\* needle in hay, for str
Contains(needle, hay) ==
    \E i \in 0..(Len(hay) - Len(needle)) :
        SubSeq(hay, i + 1, i + Len(needle)) = needle

\* s[:n]
Prefix(s, n) == SubSeq(s, 1, IF Len(s) < n THEN Len(s) ELSE n)

(***************************************************************************)
(* Python values as json.load builds them.  Every value is a record of the *)
(* same shape: t the type, s the text of a str or of a number, e the       *)
(* elements of a list, m the items of a dict in insertion order.           *)
(***************************************************************************)
PyStr(s)  == [t |-> "str",  s |-> s,    e |-> <<>>, m |-> <<>>]
PyNum(d)  == [t |-> "num",  s |-> d,    e |-> <<>>, m |-> <<>>]
PyNone    == [t |-> "none", s |-> <<>>, e |-> <<>>, m |-> <<>>]
PyList(e) == [t |-> "list", s |-> <<>>, e |-> e,    m |-> <<>>]
PyDict(m) == [t |-> "dict", s |-> <<>>, e |-> <<>>, m |-> m]

\* key in d
DictHas(d, key) == \E i \in 1..Len(d.m) : d.m[i].k = key

\* d[key]; a repeated key keeps its last value
DictGet(d, key) ==
    LET i == CHOOSE j \in 1..Len(d.m) :
                 /\ d.m[j].k = key
                 /\ \A l \in (j + 1)..Len(d.m) : d.m[l].k # key
    IN d.m[i].v

(***************************************************************************)
(* class Template                                                          *)
(***************************************************************************)
DescriptionKey == <<"d", "e", "s", "c", "r", "i", "p", "t", "i", "o", "n">>

\* Template(description)
Template(description) == [description |-> description]

\* Template.to_dict
to_dict(template) == PyDict(<<[k |-> DescriptionKey, v |-> template.description]>>)

\* The exception data["description"] raises, "none" when it raises nothing:
\* a dict without the key raises KeyError, every value that is not a dict
\* raises TypeError.
FromDictError(data) ==
    IF data.t = "dict"
    THEN IF DictHas(data, DescriptionKey) THEN "none" ELSE "KeyError"
    ELSE "TypeError"

\* Template.from_dict, where it raises nothing; the value is taken as it is
from_dict(data) == Template(DictGet(data, DescriptionKey))

(***************************************************************************)
(* JSON text: tokens, the encoder of json.dump, the parser of json.load.   *)
(***************************************************************************)
Tok(k, s) == [k |-> k, s |-> s]
Punct(k)  == Tok(k, <<>>)

\* EscapeChar with the quote left as it is
EscapeCharNoQuote(c) ==
    CASE c = "\\" -> <<"\\", "\\">>
      [] c = "\n" -> <<"\\", "n">>
      [] OTHER    -> <<c>>

\* one character of a str, escaped as json.dump (ensure_ascii) writes it
EscapeChar(c) ==
    CASE c = "\"" -> <<"\\", "\"">>
      [] c = "\\" -> <<"\\", "\\">>
      [] c = "\n" -> <<"\\", "n">>
      [] OTHER    -> <<c>>

RECURSIVE Escape(_)
Escape(s) == IF s = <<>> THEN <<>> ELSE EscapeChar(Head(s)) \o Escape(Tail(s))

\* The body of a string token is well formed: no raw quote, no raw control
\* character, every backslash followed by a known escape.
RECURSIVE ValidBody(_)
ValidBody(b) ==
    IF b = <<>> THEN TRUE
    ELSE IF Head(b) = "\\"
         THEN /\ Len(b) >= 2
              /\ b[2] \in {"\"", "\\", "n"}
              /\ ValidBody(Tail(Tail(b)))
         ELSE /\ Head(b) \notin {"\"", "\n"}
              /\ ValidBody(Tail(b))

RECURSIVE Unescape(_)
Unescape(b) ==
    IF b = <<>> THEN <<>>
    ELSE IF Head(b) = "\\"
         THEN <<(IF b[2] = "n" THEN "\n" ELSE b[2])>> \o Unescape(Tail(Tail(b)))
         ELSE <<Head(b)>> \o Unescape(Tail(b))

RECURSIVE EncodeValue(_)
RECURSIVE EncodeItems(_, _)
RECURSIVE EncodeMembers(_, _)

\* The tokens json.dump writes for one value.
EncodeValue(v) ==
    CASE v.t = "str"  -> <<Tok("str", Escape(v.s))>>
      [] v.t = "num"  -> <<Tok("num", v.s)>>
      [] v.t = "none" -> <<Punct("null")>>
      [] v.t = "list" -> <<Punct("[")>> \o EncodeItems(v.e, 1) \o <<Punct("]")>>
      [] v.t = "dict" -> <<Punct("{")>> \o EncodeMembers(v.m, 1) \o <<Punct("}")>>

EncodeItems(e, i) ==
    IF i > Len(e) THEN <<>>
    ELSE (IF i > 1 THEN <<Punct(",")>> ELSE <<>>)
         \o EncodeValue(e[i]) \o EncodeItems(e, i + 1)

EncodeMembers(m, i) ==
    IF i > Len(m) THEN <<>>
    ELSE (IF i > 1 THEN <<Punct(",")>> ELSE <<>>)
         \o <<Tok("str", Escape(m[i].k)), Punct(":")>>
         \o EncodeValue(m[i].v) \o EncodeMembers(m, i + 1)

ParseFail == [ok |-> FALSE, val |-> PyNone, next |-> 0]
ParseOk(val, next) == [ok |-> TRUE, val |-> val, next |-> next]

RECURSIVE ParseValue(_, _)
RECURSIVE ParseElems(_, _, _)
RECURSIVE ParseMembers(_, _, _)

\* One JSON value starting at token i: the value and the index after it.
ParseValue(toks, i) ==
    IF i > Len(toks) THEN ParseFail
    ELSE LET t == toks[i] IN
         CASE t.k = "str" ->
                IF ValidBody(t.s) THEN ParseOk(PyStr(Unescape(t.s)), i + 1)
                ELSE ParseFail
           [] t.k = "num"  -> ParseOk(PyNum(t.s), i + 1)
           [] t.k = "null" -> ParseOk(PyNone, i + 1)
           [] t.k = "[" ->
                IF i + 1 <= Len(toks) /\ toks[i + 1].k = "]"
                THEN ParseOk(PyList(<<>>), i + 2)
                ELSE ParseElems(toks, i + 1, <<>>)
           [] t.k = "{" ->
                IF i + 1 <= Len(toks) /\ toks[i + 1].k = "}"
                THEN ParseOk(PyDict(<<>>), i + 2)
                ELSE ParseMembers(toks, i + 1, <<>>)
           [] OTHER -> ParseFail

ParseElems(toks, i, acc) ==
    LET r == ParseValue(toks, i) IN
    IF ~r.ok \/ r.next > Len(toks) THEN ParseFail
    ELSE IF toks[r.next].k = ","
         THEN ParseElems(toks, r.next + 1, Append(acc, r.val))
         ELSE IF toks[r.next].k = "]"
              THEN ParseOk(PyList(Append(acc, r.val)), r.next + 1)
              ELSE ParseFail

ParseMembers(toks, i, acc) ==
    IF i + 1 > Len(toks) THEN ParseFail
    ELSE IF toks[i].k # "str" \/ ~ValidBody(toks[i].s) \/ toks[i + 1].k # ":"
         THEN ParseFail
         ELSE LET r == ParseValue(toks, i + 2) IN
              IF ~r.ok \/ r.next > Len(toks) THEN ParseFail
              ELSE LET item == [k |-> Unescape(toks[i].s), v |-> r.val] IN
                   IF toks[r.next].k = ","
                   THEN ParseMembers(toks, r.next + 1, Append(acc, item))
                   ELSE IF toks[r.next].k = "}"
                        THEN ParseOk(PyDict(Append(acc, item)), r.next + 1)
                        ELSE ParseFail

\* json.load: one value and nothing after it, otherwise JSONDecodeError
JsonLoad(toks) ==
    LET r == ParseValue(toks, 1) IN
    IF r.ok /\ r.next = Len(toks) + 1 THEN r ELSE ParseFail

(***************************************************************************)
(* State.                                                                  *)
(***************************************************************************)
VARIABLES
    file,       \* templates.json: whether it exists and the tokens it holds
    templates,  \* self.templates
    listbox,    \* the rows of self.template_listbox, top to bottom
    query,      \* the argument of the last update_template_list call
    sel,        \* template_listbox.curselection(), as a set of 0-based rows
    dialog,     \* the TemplateInputDialog of the running handler
    index,      \* the local `index` of edit_template
    written,    \* how many chunks json.dump has written in save_templates
    clipboard,  \* the text on the clipboard
    exc,        \* the exception that escaped the last step, "none" if none
    pc,         \* where the main thread is
    tray,       \* where the tray thread is
    icon,       \* the loop of self.icon
    root,       \* the state of the Tk root window
    quitFlag,   \* Tk's flag that makes mainloop return
    proc        \* the process: "running" or "exited"

vars == <<file, templates, listbox, query, sel, dialog, index, written,
          clipboard, exc, pc, tray, icon, root, quitFlag, proc>>

storeVars  == <<file, templates>>
uiVars     == <<listbox, query, sel, dialog, index, clipboard>>
threadVars == <<tray, icon, root, quitFlag, proc>>

(***************************************************************************)
(* The inputs: what templates.json may hold when the process starts, what  *)
(* the user types into a dialog, what the user searches for.               *)
(***************************************************************************)
NoFile        == [exists |-> FALSE, toks |-> <<>>]
FileOf(toks)  == [exists |-> TRUE, toks |-> toks]
Record(k, v)  == PyDict(<<[k |-> k, v |-> v]>>)
Described(s)  == Record(DescriptionKey, PyStr(s))

InitialFiles ==
    { NoFile,
      \* an empty file, as an interrupted save leaves it
      FileOf(<<>>),
      \* truncated JSON: [{"description": "a"
      FileOf(SubSeq(EncodeValue(PyList(<<Described(<<"a">>)>>)), 1, 5)),
      \* {"not": "an array"}
      FileOf(EncodeValue(Record(<<"n", "o", "t">>, PyStr(<<"a", "n">>)))),
      \* {}
      FileOf(EncodeValue(PyDict(<<>>))),
      \* 5
      FileOf(EncodeValue(PyNum(<<"5">>))),
      \* []
      FileOf(EncodeValue(PyList(<<>>))),
      \* [{"description": "a"}]
      FileOf(EncodeValue(PyList(<<Described(<<"a">>)>>))),
      \* [{"description": "a"}, {"description": "Ab"}]
      FileOf(EncodeValue(PyList(<<Described(<<"a">>), Described(<<"A", "b">>)>>))),
      \* [{"description": " "}]
      FileOf(EncodeValue(PyList(<<Described(<<" ">>)>>))),
      \* [{"description": "a"}, {"text": "a"}]
      FileOf(EncodeValue(PyList(<<Described(<<"a">>),
                                  Record(<<"t", "e", "x", "t">>, PyStr(<<"a">>))>>))),
      \* [{"description": 5}]
      FileOf(EncodeValue(PyList(<<Record(DescriptionKey, PyNum(<<"5">>))>>))),
      \* ["a"]
      FileOf(EncodeValue(PyList(<<PyStr(<<"a">>)>>))) }

\* what the user leaves in the dialog's Text widget
TypedTexts ==
    { <<>>, <<" ">>, <<"a">>, <<" ", "A", "b">>, <<"b", "\n", "\"">> }

\* how a dialog ends: OK with a text, or Cancel after typing something
DialogInputs ==
    {[ok |-> TRUE, text |-> t] : t \in TypedTexts}
        \cup {[ok |-> FALSE, text |-> <<"a">>]}

\* what askstring returns: None on cancel, or the string entered
Queries == { PyNone, PyStr(<<>>), PyStr(<<"a">>), PyStr(<<"B">>), PyStr(<<"x">>) }

NoDialog == [ok |-> FALSE, text |-> <<>>, result |-> PyNone]

\* Truthy as `if x is not None:` would decide
TruthyNotNone(v) == v.t = "str"

\* `if x:` for x None or a str
Truthy(v) == v.t = "str" /\ v.s # <<>>

(***************************************************************************)
(* TemplateInputDialog                                                     *)
(***************************************************************************)
\* Text.get("1.0", END): the text with the widget's final newline
TextGet(text) == Append(text, "\n")

\* apply without the strip()
applyNoStrip(text) == PyStr(TextGet(text))

\* TemplateInputDialog.apply
apply(text) == PyStr(Strip(TextGet(text)))

\* The dialog once it has resolved: OK runs apply, Cancel leaves result None.
Resolved(ok, text) ==
    [ok |-> ok, text |-> text, result |-> IF ok THEN apply(text) ELSE PyNone]

(***************************************************************************)
(* load_templates                                                          *)
(***************************************************************************)
\* What iterating `data` yields, for the values that can be iterated.
Iterate(data) ==
    CASE data.t = "list" -> data.e
      [] data.t = "dict" -> [i \in 1..Len(data.m) |-> PyStr(data.m[i].k)]
      [] data.t = "str"  -> [i \in 1..Len(data.s) |-> PyStr(<<data.s[i]>>)]
      [] OTHER -> <<>>

\* The exception the list comprehension raises, "none" when it raises none.
ComprehensionError(data) ==
    IF data.t \in {"num", "none"} THEN "TypeError"
    ELSE LET items == Iterate(data)
             bad   == {i \in 1..Len(items) : FromDictError(items[i]) # "none"}
         IN IF bad = {} THEN "none"
            ELSE FromDictError(items[CHOOSE i \in bad : \A j \in bad : i <= j])

\* load_templates on file f with self.templates = cur: the new self.templates
\* and the exception that escapes ("none": it returned).
load_templates(f, cur) ==
    IF ~f.exists
    THEN [templates |-> <<>>, exc |-> "none"]          \* FileNotFoundError
    ELSE LET r == JsonLoad(f.toks) IN
         IF ~r.ok
         THEN [templates |-> <<>>, exc |-> "none"]     \* JSONDecodeError
         ELSE IF ComprehensionError(r.val) # "none"
              THEN [templates |-> cur, exc |-> ComprehensionError(r.val)]
              ELSE [templates |-> [i \in 1..Len(Iterate(r.val)) |->
                                      from_dict(Iterate(r.val)[i])],
                    exc |-> "none"]

(***************************************************************************)
(* save_templates                                                          *)
(***************************************************************************)
\* [t.to_dict() for t in self.templates]
Snapshot(ts) == PyList([i \in 1..Len(ts) |-> to_dict(ts[i])])

\* json.dump passes its output to f.write chunk by chunk: "[]" is one chunk,
\* and otherwise every bracket, separator, key and value is a chunk of its
\* own.  NumChunks is how many there are, Chunk the n-th of them.
NumChunks(ts) == IF ts = <<>> THEN 1 ELSE Len(EncodeValue(Snapshot(ts)))

Chunk(ts, n) ==
    IF ts = <<>> THEN EncodeValue(Snapshot(ts))
    ELSE <<EncodeValue(Snapshot(ts))[n]>>

(***************************************************************************)
(* update_template_list                                                    *)
(***************************************************************************)
DisplayLen == 50

\* template.description[:50] + "..."
Display(template) == Prefix(template.description.s, DisplayLen) \o <<".", ".", ".">>

\* query is None or query.lower() in template.description.lower()
Shown(template, q) ==
    q.t = "none" \/ Contains(Lower(q.s), Lower(template.description.s))

\* The rows the loop inserts for templates i, i+1, ...
RECURSIVE Rows(_, _, _)
Rows(ts, q, i) ==
    IF i > Len(ts) THEN <<>>
    ELSE (IF Shown(ts[i], q) THEN <<Display(ts[i])>> ELSE <<>>)
         \o Rows(ts, q, i + 1)

\* A description that is no str makes the slice or the concatenation raise.
ListError(ts) ==
    IF \E i \in 1..Len(ts) : ts[i].description.t # "str"
    THEN "TypeError" ELSE "none"

(***************************************************************************)
(* seq[i] for a Python index i                                             *)
(***************************************************************************)
\* the 1-based position Python's seq[i] reads, 0 when it raises IndexError
PyIndex(seq, i) ==
    IF i >= 0
    THEN (IF i < Len(seq) THEN i + 1 ELSE 0)
    ELSE (IF -i <= Len(seq) THEN Len(seq) + i + 1 ELSE 0)

(***************************************************************************)
(* Construction: TemplaterApp.__init__ and the start of run().             *)
(***************************************************************************)
Init ==
    /\ file \in InitialFiles
    /\ templates = <<>>
    /\ listbox = <<>>
    /\ query = PyNone
    /\ sel = {}
    /\ dialog = NoDialog
    /\ index = 0
    /\ written = 0
    /\ clipboard = <<>>
    /\ exc = "none"
    /\ pc = "load"
    /\ tray = "unstarted"
    /\ icon = "none"
    /\ root = "none"
    /\ quitFlag = FALSE
    /\ proc = "running"

\* An exception leaves the main thread uncaught: the process ends, and the
\* daemon tray thread with it.
Crash(e) ==
    /\ exc' = e
    /\ pc' = pc \o "_raised"
    /\ proc' = "exited"
    /\ tray' = IF tray = "unstarted" THEN tray ELSE "done"

\* __init__: self.templates = []; self.load_templates()
LoadTemplates ==
    /\ proc = "running" /\ pc = "load"
    /\ LET r == load_templates(file, templates) IN
       /\ templates' = r.templates
       /\ IF r.exc = "none"
          THEN pc' = "setup" /\ UNCHANGED <<exc, proc, tray>>
          ELSE Crash(r.exc)
    /\ UNCHANGED <<file, uiVars, written, icon, root, quitFlag>>

\* __init__: self.setup_tray(); self.setup_ui(), which ends with
\* update_template_list()
SetupUI ==
    /\ proc = "running" /\ pc = "setup"
    /\ icon' = "created"
    /\ root' = "normal"
    /\ IF ListError(templates) = "none"
       THEN /\ listbox' = Rows(templates, PyNone, 1)
            /\ query' = PyNone
            /\ sel' = {}
            /\ pc' = "run"
            /\ UNCHANGED <<exc, proc, tray>>
       ELSE /\ Crash(ListError(templates))
            /\ UNCHANGED <<listbox, query, sel>>
    /\ UNCHANGED <<storeVars, dialog, index, written, clipboard, quitFlag>>

\* run(): the window is withdrawn, the tray thread is started and runs
\* icon.run(), the main thread enters root.mainloop()
Run ==
    /\ proc = "running" /\ pc = "run"
    /\ root' = "withdrawn"
    /\ tray' = "idle"
    /\ icon' = "running"
    /\ pc' = "mainloop"
    /\ UNCHANGED <<storeVars, uiVars, written, exc, quitFlag, proc>>

Startup == LoadTemplates \/ SetupUI \/ Run

(***************************************************************************)
(* The handlers the main loop runs.                                        *)
(***************************************************************************)
Idle == proc = "running" /\ pc = "mainloop"

\* the user clicks row r of the listbox
Select(r) ==
    /\ Idle
    /\ r \in 0..(Len(listbox) - 1)
    /\ sel' = {r}
    /\ UNCHANGED <<storeVars, listbox, query, dialog, index, written,
                   clipboard, exc, pc, threadVars>>

\* selected[0]
First(selected) == CHOOSE r \in selected : \A x \in selected : r <= x

\* update_template_list(q): the listbox is emptied, which clears the
\* selection, and filled again
UpdateTemplateList(q) ==
    /\ listbox' = Rows(templates, q, 1)
    /\ query' = q
    /\ sel' = {}

\* create_template, to the point where the dialog has resolved
CreateDialog(ok, text) ==
    /\ Idle
    /\ Len(templates) < MaxTemplates
    /\ dialog' = Resolved(ok, text)
    /\ pc' = "create_resolved"
    /\ UNCHANGED <<storeVars, listbox, query, sel, index, written,
                   clipboard, exc, threadVars>>

\* create_template: if dialog.result: append, then save_templates()
CreateApply ==
    /\ proc = "running" /\ pc = "create_resolved"
    /\ IF Truthy(dialog.result)
       THEN /\ templates' = Append(templates, Template(dialog.result))
            /\ pc' = "save_open"
       ELSE /\ templates' = templates
            /\ pc' = "mainloop"
    /\ dialog' = NoDialog
    /\ UNCHANGED <<file, listbox, query, sel, index, written, clipboard,
                   exc, threadVars>>

\* edit_template, to the point where the dialog has resolved: nothing without
\* a selection; templates[index] is read before the try block, so its
\* IndexError escapes the handler
EditDialog(ok, text) ==
    /\ Idle
    /\ IF sel = {}
       THEN UNCHANGED <<index, dialog, pc, exc>>
       ELSE /\ index' = First(sel)
            /\ IF PyIndex(templates, First(sel)) = 0
               THEN exc' = "IndexError" /\ UNCHANGED <<dialog, pc>>
               ELSE /\ dialog' = Resolved(ok, text)
                    /\ pc' = "edit_resolved"
                    /\ exc' = exc
    /\ UNCHANGED <<storeVars, listbox, query, sel, written, clipboard,
                   threadVars>>

\* edit_template: if dialog.result: template.description = dialog.result,
\* then save_templates()
EditApply ==
    /\ proc = "running" /\ pc = "edit_resolved"
    /\ IF Truthy(dialog.result)
       THEN /\ templates' = [templates EXCEPT
                    ![PyIndex(templates, index)].description = dialog.result]
            /\ pc' = "save_open"
       ELSE /\ templates' = templates
            /\ pc' = "mainloop"
    /\ dialog' = NoDialog
    /\ index' = 0
    /\ UNCHANGED <<file, listbox, query, sel, written, clipboard,
                   exc, threadVars>>

\* save_templates: open(file_path, "w") creates the file or truncates it
SaveOpen ==
    /\ proc = "running" /\ pc = "save_open"
    /\ file' = FileOf(<<>>)
    /\ written' = 0
    /\ pc' = "save_write"
    /\ UNCHANGED <<templates, uiVars, exc, threadVars>>

\* save_templates: json.dump writes its next chunk
SaveWrite ==
    /\ proc = "running" /\ pc = "save_write"
    /\ written < NumChunks(templates)
    /\ file' = FileOf(file.toks \o Chunk(templates, written + 1))
    /\ written' = written + 1
    /\ UNCHANGED <<templates, uiVars, exc, pc, threadVars>>

\* save_templates: json.dump is done and the with block closes the file
SaveClose ==
    /\ proc = "running" /\ pc = "save_write"
    /\ written = NumChunks(templates)
    /\ written' = 0
    /\ pc' = "refresh"
    /\ UNCHANGED <<storeVars, uiVars, exc, threadVars>>

\* create_template and edit_template after save_templates():
\* self.update_template_list()
Refresh ==
    /\ proc = "running" /\ pc = "refresh"
    /\ UpdateTemplateList(PyNone)
    /\ pc' = "mainloop"
    /\ UNCHANGED <<storeVars, dialog, index, written, clipboard, exc,
                   threadVars>>

\* search_templates: askstring returns q
SearchTemplates(q) ==
    /\ Idle
    /\ UpdateTemplateList(q)
    /\ UNCHANGED <<storeVars, dialog, index, written, clipboard, exc, pc,
                   threadVars>>

\* the Clear Search button: update_template_list()
ClearSearch ==
    /\ Idle
    /\ UpdateTemplateList(PyNone)
    /\ UNCHANGED <<storeVars, dialog, index, written, clipboard, exc, pc,
                   threadVars>>

\* copy_template: the description of templates[selected[0]] goes to the
\* clipboard
CopyTemplate ==
    /\ Idle
    /\ IF sel = {}
       THEN UNCHANGED <<clipboard, exc>>
       ELSE IF PyIndex(templates, First(sel)) = 0
            THEN exc' = "IndexError" /\ UNCHANGED clipboard
            ELSE /\ clipboard' = templates[PyIndex(templates, First(sel))].description.s
                 /\ exc' = exc
    /\ UNCHANGED <<storeVars, listbox, query, sel, dialog, index, written,
                   pc, threadVars>>

Handlers ==
    \/ \E r \in 0..(Len(listbox) - 1) : Select(r)
    \/ \E d \in DialogInputs : CreateDialog(d.ok, d.text)
    \/ CreateApply
    \/ \E d \in DialogInputs : EditDialog(d.ok, d.text)
    \/ EditApply
    \/ SaveOpen
    \/ SaveWrite
    \/ SaveClose
    \/ Refresh
    \/ \E q \in Queries : SearchTemplates(q)
    \/ ClearSearch
    \/ CopyTemplate

Next == Startup \/ Handlers

\* The store and its window: construction, then the handlers of the main
\* loop.  The tray thread never touches the store, so it is left out here.
Spec == Init /\ [][Next]_vars

(***************************************************************************)
(* edit_template with the selection as an input: the handler is run with   *)
(* any index from -1 to the size of the collection, as update(index, text) *)
(* would be called.  The listbox itself only ever reports rows it holds.   *)
(***************************************************************************)
SelectIndex(i) ==
    /\ Idle
    /\ i \in -1..Len(templates)
    /\ sel' = {i}
    /\ UNCHANGED <<storeVars, listbox, query, dialog, index, written,
                   clipboard, exc, pc, threadVars>>

NextUpdate ==
    \/ Startup
    \/ \E i \in -1..MaxTemplates : SelectIndex(i)
    \/ \E d \in DialogInputs : CreateDialog(d.ok, d.text)
    \/ CreateApply
    \/ \E d \in DialogInputs : EditDialog(d.ok, d.text)
    \/ EditApply
    \/ SaveOpen
    \/ SaveWrite
    \/ SaveClose
    \/ Refresh

SpecUpdate == Init /\ [][NextUpdate]_vars

(***************************************************************************)
(* The two threads: show_window, hide_window, quit_app, run().  The tray   *)
(* menu holds the bound methods show_window and quit_app, which the tray   *)
(* loop calls on the tray thread.                                          *)
(***************************************************************************)
\* the calls of show_window and of quit_app, in order
ShowWindow == <<"geometry", "deiconify", "lift", "focus_force">>
\* quit_app that stops the icon and exits, and leaves the window alone
QuitAppNoRoot == <<"icon_stop", "sys_exit">>
QuitApp    == <<"icon_stop", "root_quit", "root_destroy", "sys_exit">>

Calls(method) == {method[i] : i \in 1..Len(method)}

\* the call that follows call c in method, "return" after the last
NextCall(method, c) ==
    LET i == CHOOSE j \in 1..Len(method) : method[j] = c IN
    IF i < Len(method) THEN method[i + 1] ELSE "return"

\* The process ends; the tray thread, a daemon, ends with it.
Exit ==
    /\ proc' = "exited"
    /\ pc' = "exited"
    /\ tray' = IF tray = "unstarted" THEN tray ELSE "done"

\* the main thread goes on to call c of quit_app; returning from quit_app
\* leaves run(), and the process ends
MainGoto(c) ==
    IF c = "return" THEN Exit ELSE pc' = c /\ UNCHANGED <<proc, tray>>

\* A callback of the tray menu ends: by returning, or by an exception, which
\* the tray loop survives or not.
TrayReturn == tray' = "idle" /\ icon' = icon
TrayRaise ==
    \/ tray' = "idle" /\ icon' = icon
    \/ tray' = "done" /\ icon' = "stopped"

TrayGoto(c) == IF c = "return" THEN TrayReturn ELSE tray' = c /\ icon' = icon

\* WM_DELETE_WINDOW: hide_window
HideWindow ==
    /\ Idle
    /\ root = "normal"
    /\ root' = "withdrawn"
    /\ UNCHANGED <<storeVars, uiVars, written, exc, pc, tray, icon, quitFlag, proc>>

\* root.mainloop() returns once root.quit() was called or the window is gone
MainloopReturn ==
    /\ Idle
    /\ quitFlag \/ root = "destroyed"
    /\ pc' = QuitApp[1]
    /\ UNCHANGED <<storeVars, uiVars, written, exc, tray, icon, root, quitFlag, proc>>

\* run()'s finally: quit_app: self.icon.stop().  What stopping an icon that
\* was stopped already does is pystray's business: it returns, or it raises.
MainIconStop ==
    /\ proc = "running" /\ pc = "icon_stop"
    /\ \/ /\ icon' = IF icon = "running" THEN "stopping" ELSE icon
          /\ MainGoto(NextCall(QuitApp, "icon_stop"))
          /\ exc' = exc
       \/ /\ icon # "running"
          /\ Crash("Exception")
          /\ icon' = icon
    /\ UNCHANGED <<storeVars, uiVars, written, root, quitFlag>>

\* quit_app on the main thread: self.root.quit()
MainRootQuit ==
    /\ proc = "running" /\ pc = "root_quit"
    /\ quitFlag' = TRUE
    /\ MainGoto(NextCall(QuitApp, "root_quit"))
    /\ UNCHANGED <<storeVars, uiVars, written, exc, icon, root>>

\* quit_app on the main thread: self.root.destroy(), a TclError once the
\* application has been destroyed
MainRootDestroy ==
    /\ proc = "running" /\ pc = "root_destroy"
    /\ IF root = "destroyed"
       THEN Crash("TclError") /\ root' = root
       ELSE /\ root' = "destroyed"
            /\ MainGoto(NextCall(QuitApp, "root_destroy"))
            /\ exc' = exc
    /\ UNCHANGED <<storeVars, uiVars, written, icon, quitFlag>>

\* quit_app on the main thread: sys.exit(0)
MainSysExit ==
    /\ proc = "running" /\ pc = "sys_exit"
    /\ Exit
    /\ UNCHANGED <<storeVars, uiVars, written, exc, icon, root, quitFlag>>

\* the user picks "Show Templates" in the tray menu
TrayShowClick ==
    /\ proc = "running" /\ tray = "idle" /\ icon = "running"
    /\ tray' = ShowWindow[1]
    /\ UNCHANGED <<storeVars, uiVars, written, exc, pc, icon, root, quitFlag, proc>>

\* A Tk call made on the tray thread raises when the application has been
\* destroyed, and can raise when the main thread is not in its main loop.
TrayTkRaises(mayOrMust) ==
    IF mayOrMust = "must" THEN root = "destroyed"
    ELSE root = "destroyed" \/ pc # "mainloop"

\* show_window on the tray thread: its next call on self.root
TrayShow ==
    /\ proc = "running" /\ tray \in Calls(ShowWindow)
    /\ \/ /\ ~TrayTkRaises("must")
          /\ root' = IF tray = "deiconify" THEN "normal" ELSE root
          /\ TrayGoto(NextCall(ShowWindow, tray))
       \/ /\ TrayTkRaises("may")
          /\ TrayRaise
          /\ root' = root
    /\ UNCHANGED <<storeVars, uiVars, written, exc, pc, quitFlag, proc>>

\* the user picks "Quit" in the tray menu
TrayQuitClick ==
    /\ proc = "running" /\ tray = "idle" /\ icon = "running"
    /\ tray' = QuitApp[1]
    /\ UNCHANGED <<storeVars, uiVars, written, exc, pc, icon, root, quitFlag, proc>>

\* quit_app on the tray thread: self.icon.stop()
TrayIconStop ==
    /\ proc = "running" /\ tray = "icon_stop"
    /\ tray' = NextCall(QuitApp, "icon_stop")
    /\ icon' = IF icon = "running" THEN "stopping" ELSE icon
    /\ UNCHANGED <<storeVars, uiVars, written, exc, pc, root, quitFlag, proc>>

\* quit_app on the tray thread: self.root.quit()
TrayRootQuit ==
    /\ proc = "running" /\ tray = "root_quit"
    /\ quitFlag' = TRUE
    /\ TrayGoto(NextCall(QuitApp, "root_quit"))
    /\ UNCHANGED <<storeVars, uiVars, written, exc, pc, root, proc>>

\* quit_app on the tray thread: self.root.destroy()
TrayRootDestroy ==
    /\ proc = "running" /\ tray = "root_destroy"
    /\ \/ /\ ~TrayTkRaises("must")
          /\ root' = "destroyed"
          /\ TrayGoto(NextCall(QuitApp, "root_destroy"))
       \/ /\ TrayTkRaises("may")
          /\ TrayRaise
          /\ root' = root
    /\ UNCHANGED <<storeVars, uiVars, written, exc, pc, quitFlag, proc>>

\* quit_app on the tray thread: sys.exit(0) raises SystemExit in this thread
\* only; the process goes on
TraySysExit ==
    /\ proc = "running" /\ tray = "sys_exit"
    /\ TrayRaise
    /\ UNCHANGED <<storeVars, uiVars, written, exc, pc, root, quitFlag, proc>>

\* icon.run() returns once the icon was stopped and no callback is running
TrayLoopExit ==
    /\ proc = "running" /\ tray = "idle" /\ icon = "stopping"
    /\ tray' = "done"
    /\ icon' = "stopped"
    /\ UNCHANGED <<storeVars, uiVars, written, exc, pc, root, quitFlag, proc>>

\* the steps of the main thread that leave the main loop and quit
MainThread ==
    \/ MainloopReturn
    \/ MainIconStop
    \/ MainRootQuit
    \/ MainRootDestroy
    \/ MainSysExit

TrayThread ==
    \/ TrayShow
    \/ TrayIconStop
    \/ TrayRootQuit
    \/ TrayRootDestroy
    \/ TraySysExit
    \/ TrayLoopExit

NextLife ==
    \/ Startup
    \/ MainThread
    \/ TrayThread
    \/ HideWindow
    \/ TrayShowClick
    \/ TrayQuitClick

\* The life of the process.  Both threads are scheduled by the operating
\* system: once the main loop runs, a thread that can take a step eventually
\* takes one.  The clicks of the user are not forced.
SpecLife ==
    /\ Init
    /\ [][NextLife]_vars
    /\ WF_vars(MainThread)
    /\ WF_vars(TrayThread)

(***************************************************************************)
(* Properties.                                                             *)
(***************************************************************************)
\* a description that is empty or whitespace-only
Blank(s) == \A i \in 1..Len(s) : s[i] \in Whitespace

\* The file holds a JSON array whose elements are all mappings with a
\* string-valued "description".
IsTemplateArray(f) ==
    /\ f.exists
    /\ LET r == JsonLoad(f.toks) IN
       /\ r.ok
       /\ r.val.t = "list"
       /\ \A i \in 1..Len(r.val.e) :
            /\ r.val.e[i].t = "dict"
            /\ DictHas(r.val.e[i], DescriptionKey)
            /\ DictGet(r.val.e[i], DescriptionKey).t = "str"

\* The descriptions of the records of a file that holds a template array,
\* in order; none for any other file.
FileDescriptions(f) ==
    IF IsTemplateArray(f)
    THEN LET e == JsonLoad(f.toks).val.e IN
         [i \in 1..Len(e) |-> DictGet(e[i], DescriptionKey).s]
    ELSE <<>>

\* The positions of the templates whose description contains q, compared
\* case-insensitively, in ascending order; all positions when q is None.
Matching(ts, q) ==
    LET hit(i) ==
            \/ q.t = "none"
            \/ \E a \in 1..(Len(ts[i].description.s) + 1) :
                 \E b \in (a - 1)..Len(ts[i].description.s) :
                    Lower(SubSeq(ts[i].description.s, a, b)) = Lower(q.s)
        S == {i \in 1..Len(ts) : hit(i)}
    IN [r \in 1..Cardinality(S) |->
           CHOOSE i \in S : Cardinality({j \in S : j < i}) = r - 1]

\* C1: when templates.json exists and is not readable as a template array
\* (invalid JSON, JSON that is no array, an array with an element that is no
\* mapping with a string "description"), load_templates raises nothing and
\* leaves the collection empty.
LoadFallsBackToEmpty ==
    (file.exists /\ ~IsTemplateArray(file)) =>
        /\ pc # "load_raised"
        /\ (pc = "setup" => templates = <<>>)

\* C2: once save_templates has completed, load_templates on the same file,
\* by a fresh instance, returns the same descriptions at the same positions.
SaveLoadRoundTrip ==
    pc = "refresh" =>
        load_templates(file, <<>>) = [templates |-> templates, exc |-> "none"]

\* C2: a save of two templates has completed, one of them with a quote and a
\* newline in its description.
SaveLoadRoundTripWitness ==
    /\ pc = "refresh"
    /\ Len(templates) = 2
    /\ \E i \in 1..2 : templates[i].description.s = <<"b", "\n", "\"">>

\* C3: every step leaves templates.json as it was or holding the complete
\* new snapshot, so that an interruption after any step finds a whole file.
SaveNeverPartial ==
    [][file' = file \/ file' = FileOf(EncodeValue(Snapshot(templates')))]_vars

\* C4: when the dialog of create_template or of edit_template resolves by
\* Cancel or with a text that is empty after trimming, the handler changes
\* neither the collection nor the file and returns without saving.
EmptyRejected ==
    [][(/\ pc \in {"create_resolved", "edit_resolved"}
        /\ (~dialog.ok \/ Blank(dialog.text)))
       => (/\ templates' = templates
           /\ file' = file
           /\ pc' = "mainloop")]_vars

\* C4: the edit dialog on an existing template has resolved by OK with a
\* whitespace-only text.
EmptyRejectedWitness ==
    /\ pc = "edit_resolved"
    /\ dialog.ok
    /\ dialog.text = <<" ">>
    /\ Len(templates) >= 1
    /\ file.exists

SearchYieldsIndexedMatches ==
    Idle =>
        LET idx == Matching(templates, query) IN
        /\ Len(listbox) = Len(idx)
        /\ \A r \in 1..Len(idx) :
             /\ listbox[r] = Display(templates[idx[r]])
             /\ idx[r] = r

\* C7, as claimed: whatever templates.json held at the start, what the
\* program writes to it holds no record with a blank description.
NoBlankPersisted ==
    pc \in {"save_write", "refresh"} =>
        \A i \in 1..Len(FileDescriptions(file)) : ~Blank(FileDescriptions(file)[i])

\* C7, amended: after load_templates, no step puts a blank description into
\* the collection, and a blank record in the file is always one the
\* collection already held at that position: a blank description is
\* persisted only when it was loaded from the initial file.
BlankOnlyFromLoad ==
    [][pc # "load" =>
        /\ \A i \in 1..Len(templates') :
             Blank(templates'[i].description.s) =>
                i <= Len(templates) /\ Blank(templates[i].description.s)
        /\ \A i \in 1..Len(FileDescriptions(file')) :
             Blank(FileDescriptions(file')[i]) =>
                i <= Len(templates) /\ Blank(templates[i].description.s)]_vars

\* C7: a save has completed that wrote back a blank record loaded from the
\* initial file, followed by a record made by create_template.
BlankOnlyFromLoadWitness ==
    /\ pc = "refresh"
    /\ Len(FileDescriptions(file)) = 2
    /\ Blank(FileDescriptions(file)[1])
    /\ ~Blank(FileDescriptions(file)[2])

\* C8: while the main thread is in its event loop, the tray thread executes
\* no call on the Tk root: show_window and the Tk calls of quit_app run on
\* the main thread only.
TrayOnlyPostsIntents ==
    ~(/\ pc = "mainloop"
      /\ tray \in Calls(ShowWindow) \cup {"root_quit", "root_destroy"})

SelectionTargetsDisplayed ==
    (pc = "edit_resolved" /\ sel # {}) =>
        LET idx == Matching(templates, query) IN
        templates[PyIndex(templates, index)].description
            = templates[idx[First(sel) + 1]].description

====
